---- MODULE Spec2Model ----
(***************************************************************************)
(* A model of the EDTF converter (src/src/edtf-converter.ts): the Converter *)
(* instance (its options and its merged locale data), the grammar           *)
(* validator, the segment parser, the date-range resolver and the public    *)
(* operations validateEdtf, parseEdtf, edtfToDate, edtfToText, textToEdtf.  *)
(*                                                                          *)
(* A string is a sequence of one-character strings, so that the regular     *)
(* expressions of the source can be matched character by character.         *)
(***************************************************************************)
EXTENDS Integers, Sequences, FiniteSets, TLC

VARIABLES
    options,     \* this._options
    localeData,  \* this.localeData
    arg,         \* the argument of the calls of this behaviour
    call,        \* the operation called last ("new" after construction)
    result       \* what that call returned or threw

vars == <<options, localeData, arg, call, result>>

----------------------------------------------------------------------------
(* Characters and strings *)

DigitChar == <<"0", "1", "2", "3", "4", "5", "6", "7", "8", "9">>

Digits == {DigitChar[i] : i \in 1..10}

DigitVal(c) == (CHOOSE i \in 1..10 : DigitChar[i] = c) - 1

\* \s of the regular expressions; the inputs use the space as whitespace
Whitespace == {" "}

Min(a, b) == IF a <= b THEN a ELSE b

RECURSIVE Concat(_)
Concat(ss) == IF ss = <<>> THEN <<>> ELSE Head(ss) \o Concat(Tail(ss))

\* String.prototype.split('/')
RECURSIVE SplitFrom(_, _, _)
SplitFrom(s, i, cur) ==
    IF i > Len(s) THEN <<cur>>
    ELSE IF s[i] = "/" THEN <<cur>> \o SplitFrom(s, i + 1, <<>>)
    ELSE SplitFrom(s, i + 1, Append(cur, s[i]))

Split(s) == SplitFrom(s, 1, <<>>)

----------------------------------------------------------------------------
(* Regular expressions: each pattern maps the set of positions where a     *)
(* match may start to the set of positions where it may end.               *)

Lit(s, P, c) == {p + 1 : p \in {q \in P : q <= Len(s) /\ s[q] = c}}

Class(s, P, C) == {p + 1 : p \in {q \in P : q <= Len(s) /\ s[q] \in C}}

\* \s*
WsStar(s, P) ==
    {q \in 1..(Len(s) + 1) :
        \E p \in P : p <= q /\ \A i \in p..(q - 1) : s[i] \in Whitespace}

\* ([?~%])
ModifierRe(s, P) == Class(s, P, {"?", "~", "%"})

\* (0[1-9]|1[0-2])
MonthRe(s, P) ==
    Class(s, Lit(s, P, "0"), Digits \ {"0"})
        \cup Class(s, Lit(s, P, "1"), {"0", "1", "2"})

\* ([0-2][1-9]|3[0-1])
DayRe(s, P) ==
    Class(s, Class(s, P, {"0", "1", "2"}), Digits \ {"0"})
        \cup Class(s, Lit(s, P, "3"), {"0", "1"})

\* [0-9]{4}(-(0[1-9]|1[0-2])(-([0-2][1-9]|3[0-1]))?)?
DateRe(s, P) ==
    LET y   == Class(s, Class(s, Class(s, Class(s, P, Digits), Digits), Digits), Digits)
        ym  == MonthRe(s, Lit(s, y, "-"))
        ymd == DayRe(s, Lit(s, ym, "-"))
    IN  y \cup ym \cup ymd

\* (modifier?\s*date\s*modifier?)
EdtfSectionRe(s, P) ==
    LET a == WsStar(s, P \cup ModifierRe(s, P))
        b == WsStar(s, DateRe(s, a))
    IN  b \cup ModifierRe(s, b)

\* (\[(\s*\.\.)?)
OpenStartRe(s, P) ==
    LET a == Lit(s, P, "[")
    IN  a \cup Lit(s, Lit(s, WsStar(s, a), "."), ".")

\* ((\.\.\s*)?])
OpenEndRe(s, P) ==
    Lit(s, P \cup WsStar(s, Lit(s, Lit(s, P, "."), ".")), "]")

\* ^\s*openStart?\s*edtfSection\s*(\/\s*edtfSection|openEnd?)?\s*$
EdtfRegexTest(s) ==
    LET p0 == WsStar(s, {1})
        p1 == WsStar(s, p0 \cup OpenStartRe(s, p0))
        p2 == WsStar(s, EdtfSectionRe(s, p1))
        p3 == EdtfSectionRe(s, WsStar(s, Lit(s, p2, "/")))
                \cup p2 \cup OpenEndRe(s, p2)
        p4 == WsStar(s, p2 \cup p3)
    IN  (Len(s) + 1) \in p4

\* validateEdtfPart: TRUE when it returns, FALSE when it throws Invalid EDTF
validateEdtfPart(edtf) == EdtfRegexTest(edtf)

\* validateEdtf: only edtfArray[0] and a non-empty edtfArray[1] are validated
validateEdtf(edtf) ==
    LET edtfArray == Split(edtf)
    IN  /\ validateEdtfPart(edtfArray[1])
        /\ (Len(edtfArray) >= 2 /\ edtfArray[2] # <<>>)
                => validateEdtfPart(edtfArray[2])

----------------------------------------------------------------------------
(* moment: a moment is a UTC calendar date with a time of day, or the      *)
(* invalid moment (isValid() false, its date NaN); Null is the null of     *)
(* IDate.  All three are records of one shape.                             *)

StartOfDayTime == <<0, 0, 0, 0>>

EndOfDayTime == <<23, 59, 59, 999>>

Moment(y, m, d, t) == [kind |-> "date", y |-> y, m |-> m, d |-> d, t |-> t]

InvalidMoment == [kind |-> "invalid", y |-> 0, m |-> 0, d |-> 0, t |-> StartOfDayTime]

Null == [kind |-> "null", y |-> 0, m |-> 0, d |-> 0, t |-> StartOfDayTime]

isLeapYear(y) == (y % 4 = 0 /\ y % 100 # 0) \/ y % 400 = 0

daysInMonth(y, m) ==
    IF m = 2 THEN (IF isLeapYear(y) THEN 29 ELSE 28)
    ELSE IF m \in {4, 6, 9, 11} THEN 30 ELSE 31

Num2(s, i) == 10 * DigitVal(s[i]) + DigitVal(s[i + 1])

Num4(s, i) == 100 * Num2(s, i) + Num2(s, i + 2)

\* moment.utc(cleanEdtf, format), not strict: the fields the format names
\* are read, the others default to the first month and the first day; a
\* field out of its range (a day past the end of its month) makes the
\* moment invalid
momentUtc(cleanEdtf, format) ==
    LET y == Num4(cleanEdtf, 1)
        m == IF format = "YYYY" THEN 1 ELSE Num2(cleanEdtf, 6)
        d == IF format = "YYYY-MM-DD" THEN Num2(cleanEdtf, 9) ELSE 1
    IN  IF m \in 1..12 /\ d >= 1 /\ d <= daysInMonth(y, m)
        THEN Moment(y, m, d, StartOfDayTime)
        ELSE InvalidMoment

\* setMonth: the day of the month is clamped to the length of the new month
addMonths(mom, n) ==
    LET total == mom.y * 12 + (mom.m - 1) + n
        y2    == total \div 12
        m2    == (total % 12) + 1
    IN  Moment(y2, m2, Min(mom.d, daysInMonth(y2, m2)), mom.t)

nextDay(mom) ==
    IF mom.d < daysInMonth(mom.y, mom.m) THEN Moment(mom.y, mom.m, mom.d + 1, mom.t)
    ELSE IF mom.m < 12 THEN Moment(mom.y, mom.m + 1, 1, mom.t)
    ELSE Moment(mom.y + 1, 1, 1, mom.t)

prevDay(mom) ==
    IF mom.d > 1 THEN Moment(mom.y, mom.m, mom.d - 1, mom.t)
    ELSE IF mom.m > 1 THEN Moment(mom.y, mom.m - 1, daysInMonth(mom.y, mom.m - 1), mom.t)
    ELSE Moment(mom.y - 1, 12, 31, mom.t)

RECURSIVE addDays(_, _)
addDays(mom, n) ==
    IF n = 0 THEN mom
    ELSE IF n > 0 THEN addDays(nextDay(mom), n - 1)
    ELSE addDays(prevDay(mom), n + 1)

\* A variance the options do not hold is undefined, and a duration made of
\* undefined is the empty duration
durationOf(variance) == IF variance = <<>> THEN 0 ELSE variance[1]

\* moment.add(variance, unit); subtract is add of the negated duration.
\* An invalid moment is left as it is.
momentAdd(mom, n, unit) ==
    IF mom.kind # "date" THEN mom
    ELSE IF unit = "year" THEN addMonths(mom, 12 * n)
    ELSE IF unit = "month" THEN addMonths(mom, n)
    ELSE addDays(mom, n)

startOf(mom, unit) ==
    IF mom.kind # "date" THEN mom
    ELSE IF unit = "year" THEN Moment(mom.y, 1, 1, StartOfDayTime)
    ELSE IF unit = "month" THEN Moment(mom.y, mom.m, 1, StartOfDayTime)
    ELSE Moment(mom.y, mom.m, mom.d, StartOfDayTime)

endOf(mom, unit) ==
    IF mom.kind # "date" THEN mom
    ELSE IF unit = "year" THEN Moment(mom.y, 12, 31, EndOfDayTime)
    ELSE IF unit = "month" THEN Moment(mom.y, mom.m, daysInMonth(mom.y, mom.m), EndOfDayTime)
    ELSE Moment(mom.y, mom.m, mom.d, EndOfDayTime)

TimeKey(t) == ((t[1] * 60 + t[2]) * 60 + t[3]) * 1000 + t[4]

\* a <= b on the values of two moments; a comparison with NaN is false
MomentLeq(a, b) ==
    /\ a.kind = "date"
    /\ b.kind = "date"
    /\ \/ a.y < b.y
       \/ a.y = b.y /\ a.m < b.m
       \/ a.y = b.y /\ a.m = b.m /\ a.d < b.d
       \/ a.y = b.y /\ a.m = b.m /\ a.d = b.d /\ TimeKey(a.t) <= TimeKey(b.t)

----------------------------------------------------------------------------
(* Options.  A JavaScript object is a record whose domain is the set of    *)
(* keys it holds: an options object may hold any of approximateVariance,   *)
(* customModifiers and locales, and an approximateVariance any of days,    *)
(* months and years.                                                       *)

EmptyObject == <<>>

\* DEFAULT_OPTIONS with the day variance of the example of the documentation
DEFAULT_OPTIONS_Days5 ==
    [approximateVariance |-> [days |-> 5, months |-> 3, years |-> 3],
     customModifiers     |-> <<>>,
     locales             |-> <<"en">>]

DEFAULT_OPTIONS ==
    [approximateVariance |-> [days |-> 3, months |-> 3, years |-> 3],
     customModifiers     |-> <<>>,
     locales             |-> <<"en">>]

\* {...a, ...b}: the keys of both, b's value where b holds the key.  The
\* spread is shallow: a nested object of b replaces a's as a whole.
Spread(a, b) ==
    [k \in (DOMAIN a) \cup (DOMAIN b) |-> IF k \in DOMAIN b THEN b[k] ELSE a[k]]

\* set options(value)
SetOptionsValue(value) == Spread(DEFAULT_OPTIONS, value)

\* this.options.approximateVariance.<unit>s: <<n>>, or <<>> for undefined
VarianceOf(opts, key) ==
    IF key \in DOMAIN opts.approximateVariance
    THEN <<opts.approximateVariance[key]>>
    ELSE <<>>

----------------------------------------------------------------------------
(* Locale data.  The locale packs (i18n/<locale>.json) hold, for each       *)
(* keyword slot, the list of its words, and the list of date formats.       *)

LocalePack(locale) ==
    IF locale = "en"
    THEN [approximate |-> <<"circa", "around">>,
          uncertain   |-> <<"maybe">>,
          openStart   |-> <<"before">>,
          openEnd     |-> <<"after">>,
          delimiters  |-> <<"to", "until">>,
          dateFormats |-> <<"MM/DD/YYYY", "YYYY">>]
    ELSE [approximate |-> <<"circa", "environ">>,
          uncertain   |-> <<"peut-etre">>,
          openStart   |-> <<"avant">>,
          openEnd     |-> <<"apres">>,
          delimiters  |-> <<"jusqu'a">>,
          dateFormats |-> <<"DD/MM/YYYY", "YYYY">>]

\* flatten(zip(a, b)) without the undefined entries compact drops
RECURSIVE Interleave(_, _)
Interleave(a, b) ==
    IF a = <<>> THEN b
    ELSE IF b = <<>> THEN a
    ELSE <<Head(a), Head(b)>> \o Interleave(Tail(a), Tail(b))

\* uniq: the first occurrence of each entry, in order
RECURSIVE Uniq(_)
Uniq(a) ==
    IF a = <<>> THEN <<>>
    ELSE LET rest == Uniq(SelectSeq(Tail(a), LAMBDA x : x # Head(a)))
         IN  <<Head(a)>> \o rest

\* the customizer of mergeWith, on two arrays
MergeArrays(objValue, srcValue) == Uniq(Interleave(objValue, srcValue))

\* mergeWith({}, ...locales, customizer)
RECURSIVE MergeLocales(_, _)
MergeLocales(obj, locales) ==
    IF locales = <<>> THEN obj
    ELSE LET src == Head(locales)
             merged == [k \in (DOMAIN obj) \cup (DOMAIN src) |->
                           IF k \notin DOMAIN src THEN obj[k]
                           ELSE IF k \notin DOMAIN obj THEN src[k]
                           ELSE MergeArrays(obj[k], src[k])]
         IN  MergeLocales(merged, Tail(locales))

\* the locale data the constructor builds for the locale names
BuildLocaleData(localeNames) ==
    MergeLocales(EmptyObject, [i \in 1..Len(localeNames) |-> LocalePack(localeNames[i])])

----------------------------------------------------------------------------
(* Custom modifiers.  A custom modifier is the caller's: its modifierRegex *)
(* and removeModifierFn are modelled by a marker character, which the       *)
(* regex finds anywhere in the segment and the function removes.            *)

CustomModifier(keyword, marker) == [keyword |-> keyword, marker |-> marker]

Contains(s, C) == \E i \in 1..Len(s) : s[i] \in C

Remove(s, C) == SelectSeq(s, LAMBDA c : c \notin C)

modifierRegexTest(modifier, edtfPart) == Contains(edtfPart, {modifier.marker})

removeModifierFn(modifier, edtfPart) == Remove(edtfPart, {modifier.marker})

\* options.customModifiers.forEach: each modifier is tested on the segment
\* as the modifiers before it left it
RECURSIVE DetectCustomModifiers(_, _, _)
DetectCustomModifiers(modifiers, edtfPart, detected) ==
    IF modifiers = <<>> THEN [edtfPart |-> edtfPart, detectedModifiers |-> detected]
    ELSE IF modifierRegexTest(Head(modifiers), edtfPart)
    THEN DetectCustomModifiers(Tail(modifiers),
                               removeModifierFn(Head(modifiers), edtfPart),
                               Append(detected, Head(modifiers)))
    ELSE DetectCustomModifiers(Tail(modifiers), edtfPart, detected)

----------------------------------------------------------------------------
(* parseEdtf *)

\* /[~%]/
isApproximateTest(edtfPart) == Contains(edtfPart, {"~", "%"})

\* /[\?%]/
isUncertainTest(edtfPart) == Contains(edtfPart, {"?", "%"})

\* /^\[\s*\.\./
hasOpenStartTest(edtfPart) ==
    Lit(edtfPart, Lit(edtfPart, WsStar(edtfPart, Lit(edtfPart, {1}, "[")), "."), ".") # {}

\* /\.\.\s*]$/
hasOpenEndTest(edtfPart) ==
    \E p \in 1..(Len(edtfPart) + 1) :
        (Len(edtfPart) + 1) \in
            Lit(edtfPart, WsStar(edtfPart, Lit(edtfPart, Lit(edtfPart, {p}, "."), ".")), "]")

\* edtfPart.replace(/[\[\.\[\]\?~%\s]/g, '')
cleanEdtfOf(edtfPart) == Remove(edtfPart, {"[", ".", "]", "?", "~", "%"} \cup Whitespace)

formatOf(cleanEdtf) ==
    IF Len(cleanEdtf) = 4 THEN "YYYY"
    ELSE IF Len(cleanEdtf) = 7 THEN "YYYY-MM"
    ELSE "YYYY-MM-DD"

unitOf(format) ==
    IF format = "YYYY" THEN "year"
    ELSE IF format = "YYYY-MM" THEN "month"
    ELSE "day"

varianceKeyOf(format) ==
    IF format = "YYYY" THEN "years"
    ELSE IF format = "YYYY-MM" THEN "months"
    ELSE "days"

\* the minimum of a segment: the base, less the variance when approximate,
\* at the start of the unit
minDateOf(cleanEdtf, format, isApproximate, variance) ==
    LET base == momentUtc(cleanEdtf, format)
        unit == unitOf(format)
    IN  startOf(IF isApproximate
                THEN momentAdd(base, 0 - durationOf(variance), unit)
                ELSE base, unit)

\* the maximum of a segment: the base, plus the variance when approximate,
\* at the end of the unit
maxDateOf(cleanEdtf, format, isApproximate, variance) ==
    LET base == momentUtc(cleanEdtf, format)
        unit == unitOf(format)
    IN  endOf(IF isApproximate
              THEN momentAdd(base, durationOf(variance), unit)
              ELSE base, unit)

\* the body of the map of parseEdtf for a segment that validates (after its
\* custom modifiers are removed)
EdtfPartResult(opts, edtfPart, detectedModifiers) ==
    LET cleanEdtf == cleanEdtfOf(edtfPart)
        format    == formatOf(cleanEdtf)
        approx    == isApproximateTest(edtfPart)
        variance  == VarianceOf(opts, varianceKeyOf(format))
    IN  [cleanEdtf         |-> cleanEdtf,
         detectedModifiers |-> detectedModifiers,
         format            |-> format,
         hasOpenEnd        |-> hasOpenEndTest(edtfPart),
         hasOpenStart      |-> hasOpenStartTest(edtfPart),
         isApproximate     |-> approx,
         isUncertain       |-> isUncertainTest(edtfPart),
         maxDate           |-> maxDateOf(cleanEdtf, format, approx, variance),
         minDate           |-> minDateOf(cleanEdtf, format, approx, variance)]

\* a segment as the validator of parseEdtf sees it
Stripped(opts, edtfPart) == DetectCustomModifiers(opts.customModifiers, edtfPart, <<>>)

\* parseEdtf, were a segment that fails the validator left out instead of
\* thrown on
parseEdtf_SkipInvalid(opts, edtf) ==
    LET edtfArray == Split(edtf)
        stripped  == [i \in 1..Len(edtfArray) |-> Stripped(opts, edtfArray[i])]
        kept      == SelectSeq(stripped, LAMBDA x : validateEdtfPart(x.edtfPart))
    IN  IF kept = <<>> THEN [threw |-> TRUE, parts |-> <<>>]
        ELSE [threw |-> FALSE,
              parts |-> [i \in 1..Min(2, Len(kept)) |->
                            EdtfPartResult(opts, kept[i].edtfPart,
                                           kept[i].detectedModifiers)]]

\* parseEdtf: every segment of the split is mapped, so each must validate;
\* the result keeps the first two.  threw: the call threw Invalid EDTF.
parseEdtf(opts, edtf) ==
    LET edtfArray == Split(edtf)
        stripped  == [i \in 1..Len(edtfArray) |-> Stripped(opts, edtfArray[i])]
        valid     == \A i \in 1..Len(edtfArray) : validateEdtfPart(stripped[i].edtfPart)
    IN  IF ~valid THEN [threw |-> TRUE, parts |-> <<>>]
        ELSE [threw |-> FALSE,
              parts |-> [i \in 1..Min(2, Len(edtfArray)) |->
                            EdtfPartResult(opts, stripped[i].edtfPart,
                                           stripped[i].detectedModifiers)]]

\* combineDates, were the open end of the secondary segment consulted
combineDates_SecondaryOpen(parseResult) ==
    LET primaryPart == parseResult.parts[1]
    IN  IF primaryPart.hasOpenStart
        THEN [min |-> Null, max |-> primaryPart.maxDate]
        ELSE IF primaryPart.hasOpenEnd
        THEN [min |-> primaryPart.minDate, max |-> Null]
        ELSE [min |-> primaryPart.minDate,
              max |-> IF Len(parseResult.parts) >= 2
                      THEN (IF parseResult.parts[2].hasOpenEnd
                            THEN Null ELSE parseResult.parts[2].maxDate)
                      ELSE primaryPart.maxDate]

\* edtfToDate: the combination of the segments' dates
combineDates(parseResult) ==
    LET primaryPart == parseResult.parts[1]
    IN  IF primaryPart.hasOpenStart
        THEN [min |-> Null, max |-> primaryPart.maxDate]
        ELSE IF primaryPart.hasOpenEnd
        THEN [min |-> primaryPart.minDate, max |-> Null]
        ELSE [min |-> primaryPart.minDate,
              max |-> IF Len(parseResult.parts) >= 2
                      THEN parseResult.parts[2].maxDate
                      ELSE primaryPart.maxDate]

----------------------------------------------------------------------------
(* edtfToText.  A text is the sequence of its words; the date text is the  *)
(* date with the template it is formatted by.                               *)

Word(w) == [word |-> w, date |-> Null, template |-> ""]

DateText(mom, template) == [word |-> "", date |-> mom, template |-> template]

partText(ld, partResult) ==
    [i \in 1..Len(partResult.detectedModifiers) |->
        Word(partResult.detectedModifiers[i].keyword)]
    \o (IF partResult.hasOpenEnd THEN <<Word(ld.openEnd[1])>> ELSE <<>>)
    \o (IF partResult.hasOpenStart THEN <<Word(ld.openStart[1])>> ELSE <<>>)
    \o (IF partResult.isUncertain THEN <<Word(ld.uncertain[1])>> ELSE <<>>)
    \o (IF partResult.isApproximate THEN <<Word(ld.approximate[1])>> ELSE <<>>)
    \o <<DateText(momentUtc(partResult.cleanEdtf, partResult.format), ld.dateFormats[1])>>

\* the texts of the parts present, joined by the first delimiter
renderText(ld, parseResult) ==
    IF Len(parseResult.parts) >= 2
    THEN partText(ld, parseResult.parts[1])
            \o <<Word(ld.delimiters[1])>>
            \o partText(ld, parseResult.parts[2])
    ELSE partText(ld, parseResult.parts[1])

----------------------------------------------------------------------------
(* textToEdtf, from the words of the preprocessed input on *)

\* parseWords (./parse-words) is not part of this module: its result is
\* kept as the application it is
parseWords(words, opts, ld) == [words |-> words, options |-> opts, localeData |-> ld]

\* the delimiter is looked for in words.slice(1, -1)
delimiterIndexOf(words, delimiters) ==
    LET hits == {i \in 2..(Len(words) - 1) : words[i] \in delimiters}
    IN  IF hits = {} THEN 0 ELSE CHOOSE i \in hits : \A j \in hits : i <= j

textToEdtfOf(opts, ld, words) ==
    \* "--" stands for the en dash
    LET delimiters == {"-", "--"} \cup {ld.delimiters[i] : i \in 1..Len(ld.delimiters)}
        idx        == delimiterIndexOf(words, delimiters)
        startWords == IF idx > 0 THEN SubSeq(words, 1, idx - 1) ELSE words
        endWords   == IF idx > 0 THEN SubSeq(words, idx + 1, Len(words)) ELSE <<>>
    IN  IF endWords # <<>>
        THEN <<parseWords(startWords, opts, ld), parseWords(endWords, opts, ld)>>
        ELSE <<parseWords(startWords, opts, ld)>>

----------------------------------------------------------------------------
(* The inputs of the model *)

\* the largest variance the options of the model give
MaxVariance == 2

\* the years of the dates of the model: a common year, a leap year and a
\* later year
Years == {1930, 1932, 1935}

TwoDigits(n) == <<DigitChar[(n \div 10) + 1], DigitChar[(n % 10) + 1]>>

Y(y) == TwoDigits(y \div 100) \o TwoDigits(y % 100)

YM(y, m) == Y(y) \o <<"-">> \o TwoDigits(m)

YMD(y, m, d) == YM(y, m) \o <<"-">> \o TwoDigits(d)

AfterModifier == CustomModifier("after", ">")

\* what a caller passes to the constructor or assigns to options
OptionValues ==
    {EmptyObject,
     [approximateVariance |-> [days |-> 5]],
     [locales |-> <<"fr">>],
     [locales |-> <<"en", "fr">>],
     [customModifiers |-> <<AfterModifier>>]}
    \cup {[approximateVariance |-> [days |-> v, months |-> v, years |-> v]] :
             v \in 0..MaxVariance}

\* dates as written, in and out of the grammar: every month field 00..13,
\* every day field 00..32, the ends of February in a common and a leap year
PlainDates ==
    {Y(y) : y \in Years}
    \cup {YM(1930, m) : m \in 0..13}
    \cup {YMD(1930, 5, d) : d \in 0..32}
    \cup {YMD(y, 2, d) : y \in {1930, 1932}, d \in 28..31}
    \cup {YMD(1930, 13, 1), YMD(1930, 12, 31), YMD(1930, 1, 1), YMD(1930, 4, 31)}

ApproximateDates == {<<"~">> \o d : d \in PlainDates}

\* one date under every decoration: whitespace, the bracket notations and
\* the modifier symbols
DecoratedDates ==
    {Concat(<<lead, open, mod, Y(1930), mod2, close, trail>>) :
        lead  \in {<<>>, <<" ">>},
        open  \in {<<>>, <<"[">>, <<"[", ".", ".">>, <<"[", " ", ".", ".">>},
        mod   \in {<<>>, <<"~">>, <<"%">>},
        mod2  \in {<<>>, <<"?">>},
        close \in {<<>>, <<"]">>, <<".", ".", "]">>, <<".", ".", " ", "]">>, <<".", ".">>},
        trail \in {<<>>, <<" ">>}}

\* the segments of the intervals
IntervalSegments ==
    {<<>>, Y(1930), Y(1935), YM(1932, 2), YMD(1930, 5, 3), YMD(1930, 2, 31),
     YM(1930, 13), <<"~">> \o Y(1935), <<"~">> \o YMD(1930, 5, 3),
     <<"[", ".", ".">> \o Y(1930), <<"[">> \o Y(1935),
     Y(1930) \o <<".", ".", "]">>, Y(1935) \o <<".", ".", "]">>,
     <<">">> \o Y(1930)}

Intervals ==
    {a \o <<"/">> \o b : a \in IntervalSegments, b \in IntervalSegments}
    \cup {Concat(<<a, <<"/">>, b, <<"/">>, c>>) :
            a \in {Y(1930), Y(1935)},
            b \in {<<>>, Y(1935), YM(1930, 13)},
            c \in {<<>>, Y(1935), YMD(1930, 5, 32), <<"x">>}}

EdtfInputs ==
    PlainDates \cup ApproximateDates \cup DecoratedDates \cup Intervals
        \cup {<<">">> \o Y(1930), <<">", "~">> \o YM(1932, 2)}

\* the words of a preprocessed text
TextInputs ==
    {<<"1930">>, <<"1930", "-", "1935">>, <<"1930", "to", "1935">>,
     <<"1930", "jusqu'a", "1935">>, <<"-", "1930">>, <<"circa", "1930", "until", "1935", "to", "1940">>}

Args ==
    {[kind |-> "edtf", s |-> s] : s \in EdtfInputs}
        \cup {[kind |-> "text", s |-> s] : s \in TextInputs}

----------------------------------------------------------------------------
(* The converter *)

\* What a call left: its status and, by the operation, the parts of
\* parseEdtf, the min and max of edtfToDate, the text of edtfToText or the
\* EDTF of textToEdtf
NoResult ==
    [status |-> "none", parts |-> <<>>, min |-> Null, max |-> Null,
     text |-> <<>>, edtf |-> <<>>]

Threw == [NoResult EXCEPT !.status = "threw"]

Returned == [NoResult EXCEPT !.status = "returned"]

ReturnedParts(parts) == [Returned EXCEPT !.parts = parts]

ReturnedDate(date) == [Returned EXCEPT !.min = date.min, !.max = date.max]

ReturnedText(text) == [Returned EXCEPT !.text = text]

ReturnedEdtf(edtf) == [Returned EXCEPT !.edtf = edtf]

\* new Converter(value): the options are set, and the locale data is merged
\* from the packs of the locales of the options
Init ==
    \E value \in OptionValues :
        /\ options = SetOptionsValue(value)
        /\ localeData = BuildLocaleData(SetOptionsValue(value).locales)
        /\ arg \in Args
        /\ call = "new"
        /\ result = NoResult

\* converter.options = value
SetOptions ==
    \E value \in OptionValues :
        /\ options' = SetOptionsValue(value)
        /\ call' = "options"
        /\ result' = NoResult
        /\ UNCHANGED <<localeData, arg>>

ValidateEdtf ==
    /\ arg.kind = "edtf"
    /\ call' = "validateEdtf"
    /\ result' = IF validateEdtf(arg.s) THEN Returned ELSE Threw
    /\ UNCHANGED <<options, localeData, arg>>

ParseEdtf ==
    /\ arg.kind = "edtf"
    /\ call' = "parseEdtf"
    /\ result' = LET parseResult == parseEdtf(options, arg.s)
                 IN  IF parseResult.threw THEN Threw ELSE ReturnedParts(parseResult.parts)
    /\ UNCHANGED <<options, localeData, arg>>

EdtfToDate ==
    /\ arg.kind = "edtf"
    /\ call' = "edtfToDate"
    /\ result' = LET parseResult == parseEdtf(options, arg.s)
                 IN  IF parseResult.threw THEN Threw
                     ELSE ReturnedDate(combineDates(parseResult))
    /\ UNCHANGED <<options, localeData, arg>>

EdtfToText ==
    /\ arg.kind = "edtf"
    /\ call' = "edtfToText"
    /\ result' = LET parseResult == parseEdtf(options, arg.s)
                 IN  IF parseResult.threw THEN Threw
                     ELSE ReturnedText(renderText(localeData, parseResult))
    /\ UNCHANGED <<options, localeData, arg>>

TextToEdtf ==
    /\ arg.kind = "text"
    /\ call' = "textToEdtf"
    /\ result' = ReturnedEdtf(textToEdtfOf(options, localeData, arg.s))
    /\ UNCHANGED <<options, localeData, arg>>

Next ==
    \/ SetOptions
    \/ ValidateEdtf
    \/ ParseEdtf
    \/ EdtfToDate
    \/ EdtfToText
    \/ TextToEdtf

Spec == Init /\ [][Next]_vars

----------------------------------------------------------------------------
(* What the claims speak of *)

Segments == Split(arg.s)

\* a text of the form YYYY, YYYY-MM or YYYY-MM-DD, whatever its numbers
DateShaped(s) ==
    /\ Len(s) \in {4, 7, 10}
    /\ \A i \in 1..Len(s) : IF i \in {5, 8} THEN s[i] = "-" ELSE s[i] \in Digits

MonthField(s) == Num2(s, 6)

DayField(s) == Num2(s, 9)

MonthInRange(s) == Len(s) >= 7 => MonthField(s) \in 1..12

DayInRange(s) == Len(s) = 10 => DayField(s) \in 1..31

\* the date a segment holds under its modifiers, brackets and whitespace
DateOf(segment) == cleanEdtfOf(segment)

HasMonthOver12(s) ==
    \E i \in 1..Len(Split(s)) :
        LET d == DateOf(Split(s)[i])
        IN  DateShaped(d) /\ Len(d) >= 7 /\ MonthField(d) > 12

HasDayOver31(s) ==
    \E i \in 1..Len(Split(s)) :
        LET d == DateOf(Split(s)[i])
        IN  DateShaped(d) /\ Len(d) = 10 /\ DayField(d) > 31

SlashCount(s) == Len(Split(s)) - 1

\* the segment as the validator of parseEdtf is given it
SegmentSeen(i) == Stripped(options, Segments[i]).edtfPart

SegmentValid(i) == validateEdtfPart(SegmentSeen(i))

RECURSIVE TrimLeft(_)
TrimLeft(s) ==
    IF s # <<>> /\ Head(s) \in Whitespace THEN TrimLeft(Tail(s)) ELSE s

RECURSIVE TrimRight(_)
TrimRight(s) ==
    IF s # <<>> /\ s[Len(s)] \in Whitespace
    THEN TrimRight(SubSeq(s, 1, Len(s) - 1)) ELSE s

Trim(s) == TrimRight(TrimLeft(s))

BeginsWithBracket(s) == Trim(s) # <<>> /\ Head(Trim(s)) = "["

\* ends with "..", a "]" after it or not
EndsWithDots(s) ==
    LET t == Trim(s)
        u == IF t # <<>> /\ t[Len(t)] = "]" THEN TrimRight(SubSeq(t, 1, Len(t) - 1)) ELSE t
    IN  Len(u) >= 2 /\ u[Len(u)] = "." /\ u[Len(u) - 1] = "."

\* the first and the last instant of the year, month or day a date text names
UnitStart(s) ==
    Moment(Num4(s, 1),
           IF Len(s) >= 7 THEN MonthField(s) ELSE 1,
           IF Len(s) = 10 THEN DayField(s) ELSE 1,
           StartOfDayTime)

UnitEnd(s) ==
    LET y == Num4(s, 1)
        m == IF Len(s) >= 7 THEN MonthField(s) ELSE 12
    IN  Moment(y, m, IF Len(s) = 10 THEN DayField(s) ELSE daysInMonth(y, m), EndOfDayTime)

----------------------------------------------------------------------------
(* The claims *)

\* C1: validateEdtf throws for every input with a day field greater than
\* 31, a month field greater than 12, or more than one '/'.
C1_ValidateRejects ==
    (/\ call = "validateEdtf"
     /\ HasDayOver31(arg.s) \/ HasMonthOver12(arg.s) \/ SlashCount(arg.s) > 1)
        => result.status = "threw"

\* C2: validateEdtf passes on an unmodified YYYY, YYYY-MM or YYYY-MM-DD
\* exactly when its month is in 01..12 and its day in 01..31.
C2_GrammarAcceptsAllDays ==
    (call = "validateEdtf" /\ DateShaped(arg.s))
        => (result.status = "returned" <=> (MonthInRange(arg.s) /\ DayInRange(arg.s)))

\* C3: edtfToDate returns, for every string parseEdtf accepts, {null,
\* primary.maxDate} when the primary segment has hasOpenStart, else
\* {primary.minDate, null} when it has hasOpenEnd, else primary.minDate and
\* the secondary's maxDate if there is a secondary segment, else the
\* primary's maxDate; the open flags of the secondary segment play no part.
C3_CombinationRule ==
    call = "edtfToDate" =>
        LET parsed == parseEdtf(options, arg.s)
            first  == parsed.parts[1]
        IN  IF parsed.threw THEN result.status = "threw"
            ELSE /\ result.status = "returned"
                 /\ first.hasOpenStart =>
                        result.min = Null /\ result.max = first.maxDate
                 /\ (~first.hasOpenStart /\ first.hasOpenEnd) =>
                        result.min = first.minDate /\ result.max = Null
                 /\ (~first.hasOpenStart /\ ~first.hasOpenEnd) =>
                        /\ result.min = first.minDate
                        /\ result.max =
                              IF Len(parsed.parts) >= 2
                              THEN parsed.parts[2].maxDate ELSE first.maxDate

\* C3, its case: a closed primary segment and a secondary segment that has
\* an open flag
C3_Witness ==
    /\ call = "edtfToDate"
    /\ result.status = "returned"
    /\ Len(Segments) = 2
    /\ LET parts == parseEdtf(options, arg.s).parts
       IN  /\ ~parts[1].hasOpenStart /\ ~parts[1].hasOpenEnd
           /\ parts[2].hasOpenEnd
           /\ result.max = parts[2].maxDate
           /\ result.max # Null

\* C4: every segment result of parseEdtf has minDate <= maxDate, and one
\* that is not approximate has the first and the last instant of the
\* year, month or day its cleanEdtf names.
C4_MinBeforeMax ==
    (call = "parseEdtf" /\ result.status = "returned") =>
        \A i \in 1..Len(result.parts) :
            LET part == result.parts[i]
            IN  /\ MomentLeq(part.minDate, part.maxDate)
                /\ ~part.isApproximate =>
                      /\ part.minDate = UnitStart(part.cleanEdtf)
                      /\ part.maxDate = UnitEnd(part.cleanEdtf)

ApproximateMay3 == <<"~">> \o YMD(1930, 5, 3)

\* C5 as it was stated: with the default options, edtfToDate("~1930-05-03")
\* returns the start of 1930-04-28 and the end of 1930-05-08.
C5_DefaultVarianceAsStated ==
    (call = "edtfToDate" /\ options = DEFAULT_OPTIONS /\ arg.s = ApproximateMay3)
        => result = ReturnedDate([min |-> Moment(1930, 4, 28, StartOfDayTime),
                                  max |-> Moment(1930, 5, 8, EndOfDayTime)])

\* C5, amended: with the default options, edtfToDate("~1930-05-03") returns
\* the start of 1930-04-30 and the end of 1930-05-06.
C5_DefaultVariance ==
    (call = "edtfToDate" /\ options = DEFAULT_OPTIONS /\ arg.s = ApproximateMay3)
        => result = ReturnedDate([min |-> Moment(1930, 4, 30, StartOfDayTime),
                                  max |-> Moment(1930, 5, 6, EndOfDayTime)])

\* C5, its case
C5_Witness ==
    /\ call = "edtfToDate"
    /\ options = DEFAULT_OPTIONS
    /\ arg.s = ApproximateMay3
    /\ result.status = "returned"

\* C6: an approximate segment in a unit whose approximateVariance component
\* the options were not given is widened by 3 of that unit.
C6_ComponentsDefaultTo3 ==
    (call = "parseEdtf" /\ result.status = "returned") =>
        \A i \in 1..Len(result.parts) :
            LET part == result.parts[i]
                unit == unitOf(part.format)
                base == momentUtc(part.cleanEdtf, part.format)
            IN  (/\ part.isApproximate
                 /\ varianceKeyOf(part.format) \notin DOMAIN options.approximateVariance)
                    => /\ part.minDate = startOf(momentAdd(base, 0 - 3, unit), unit)
                       /\ part.maxDate = endOf(momentAdd(base, 3, unit), unit)

\* a two-segment input of which one segment validates and the other does not
OneOfTwoFails ==
    /\ arg.kind = "edtf"
    /\ Len(Segments) = 2
    /\ SegmentValid(1) # SegmentValid(2)

ValidSegment == IF SegmentValid(1) THEN 1 ELSE 2

\* C7 as it was stated: for a two-segment input of which one segment fails
\* the validator, edtfToText returns the text of the valid segment alone.
C7_DropsFailingSegmentAsStated ==
    (call = "edtfToText" /\ OneOfTwoFails) =>
        result = ReturnedText(partText(localeData,
                    EdtfPartResult(options, SegmentSeen(ValidSegment),
                                   Stripped(options, Segments[ValidSegment]).detectedModifiers)))

\* C7, amended: for a two-segment input of which one segment fails the
\* validator, edtfToText throws Invalid EDTF and returns no text.
C7_ThrowsOnFailingSegment ==
    (call = "edtfToText" /\ OneOfTwoFails) => result = Threw

\* C7, its case
C7_Witness ==
    /\ call = "edtfToText"
    /\ OneOfTwoFails
    /\ result.status = "threw"

\* C8: the locale data of the instance is always the merge of the locale
\* packs the current options name.
C8_LocaleDataFollowsOptions == localeData = BuildLocaleData(options.locales)

\* C9: for every segment the validator accepts, hasOpenStart is true exactly
\* when the segment begins with '[', and hasOpenEnd exactly when it ends
\* with '..', a ']' after it or not.
C9_OpenFlags ==
    (call = "parseEdtf" /\ result.status = "returned") =>
        \A i \in 1..Len(result.parts) :
            /\ result.parts[i].hasOpenStart <=> BeginsWithBracket(SegmentSeen(i))
            /\ result.parts[i].hasOpenEnd <=> EndsWithDots(SegmentSeen(i))

\* C10: when edtfToDate returns both min and max, min <= max.
C10_MinBeforeMax ==
    (/\ call = "edtfToDate"
     /\ result.status = "returned"
     /\ result.min # Null
     /\ result.max # Null)
        => MomentLeq(result.min, result.max)

====
